---- MODULE Spec2Model ----
(***************************************************************************)
(* The JSON ingestion worker of daGama                                     *)
(* (packages/client/src/workers/jsonParser.worker.ts).                     *)
(*                                                                         *)
(* A text is a sequence of one-character strings.  A decoded value is a    *)
(* tagged tuple: <<"null">>, <<"bool", b>>, <<"num", n>>, <<"str", chars>>,*)
(* (<<"num", m, k>> for the number m / 10^k that is no integer),           *)
(* <<"arr", seq>>, <<"obj", f>> with f a function from keys to values.     *)
(* A progress fraction is kept exact, as the pair [num, den].              *)
(***************************************************************************)
EXTENDS Integers, Sequences, FiniteSets, TLC

\* ------------------------------------------------------------------------
\* Characters and String.prototype.trim
\* ------------------------------------------------------------------------

\* The white space that occurs in the modelled texts.
WS == {" "}

Digits == {"0", "1", "2", "3", "4", "5", "6", "7", "8", "9"}

DigitVal(c) ==
  CASE c = "0" -> 0 [] c = "1" -> 1 [] c = "2" -> 2 [] c = "3" -> 3
    [] c = "4" -> 4 [] c = "5" -> 5 [] c = "6" -> 6 [] c = "7" -> 7
    [] c = "8" -> 8 [] OTHER -> 9

RECURSIVE TrimStart(_)
TrimStart(s) ==
  IF Len(s) > 0 /\ s[1] \in WS THEN TrimStart(Tail(s)) ELSE s

RECURSIVE TrimEnd(_)
TrimEnd(s) ==
  IF Len(s) > 0 /\ s[Len(s)] \in WS THEN TrimEnd(SubSeq(s, 1, Len(s) - 1)) ELSE s

Trim(s) == TrimEnd(TrimStart(s))

StartsWith(s, c) == Len(s) > 0 /\ s[1] = c

EndsWith(s, c) == Len(s) > 0 /\ s[Len(s)] = c

\* ------------------------------------------------------------------------
\* JSON.parse, on texts over the characters above, the punctuation of JSON,
\* the literals and any other character inside a string.
\* A result is [ok, val, pos]: pos is the index after the value.
\* ------------------------------------------------------------------------

NullValue == <<"null">>

ParseFail == [ok |-> FALSE, val |-> NullValue, pos |-> 0]

ParseOk(v, p) == [ok |-> TRUE, val |-> v, pos |-> p]

RECURSIVE SkipWs(_, _)
SkipWs(s, p) ==
  IF p <= Len(s) /\ s[p] \in WS THEN SkipWs(s, p + 1) ELSE p

\* The characters an escape may name inside a string, and what they decode to.
EscapeChars == {"\"", "\\", "/", "b", "f", "n", "r", "t"}

Unescape(c) ==
  CASE c = "b" -> "<BS>" [] c = "f" -> "<FF>" [] c = "n" -> "<LF>"
    [] c = "r" -> "<CR>" [] c = "t" -> "<TAB>" [] OTHER -> c

\* p is the index after the opening quote, acc the characters decoded so far.
RECURSIVE ParseString(_, _, _)
ParseString(s, p, acc) ==
  IF p > Len(s) THEN ParseFail
  ELSE IF s[p] = "\"" THEN ParseOk(<<"str", acc>>, p + 1)
  ELSE IF s[p] = "\\"
    THEN IF p + 1 <= Len(s) /\ s[p + 1] \in EscapeChars
           THEN ParseString(s, p + 2, Append(acc, Unescape(s[p + 1])))
           ELSE ParseFail
  ELSE ParseString(s, p + 1, Append(acc, s[p]))

\* p is the index of the next digit, n the value of the digits read so far.
RECURSIVE ParseDigits(_, _, _)
ParseDigits(s, p, n) ==
  IF p <= Len(s) /\ s[p] \in Digits
    THEN ParseDigits(s, p + 1, 10 * n + DigitVal(s[p]))
    ELSE ParseOk(<<"num", n>>, p)

\* 10 to the power k.
RECURSIVE Pow10(_)
Pow10(k) == IF k = 0 THEN 1 ELSE 10 * Pow10(k - 1)

\* The number m / 10^k: <<"num", n>> when it has no fractional part,
\* <<"num", m, k>> with the fewest decimals k otherwise.
RECURSIVE Number(_, _)
Number(m, k) ==
  IF k = 0 THEN <<"num", m>>
  ELSE IF m % 10 = 0 THEN Number(m \div 10, k - 1)
  ELSE <<"num", m, k>>

\* p is the index of the next decimal, m the value of the digits read so
\* far and k the number of decimals among them.
RECURSIVE ParseDecimals(_, _, _, _)
ParseDecimals(s, p, m, k) ==
  IF p <= Len(s) /\ s[p] \in Digits
    THEN ParseDecimals(s, p + 1, 10 * m + DigitVal(s[p]), k + 1)
    ELSE ParseOk(Number(m, k), p)

\* A number literal without sign or exponent: a leading 0 stands alone, and
\* a point is followed by at least one digit.
ParseNumber(s, p) ==
  LET whole == IF s[p] = "0" THEN ParseOk(<<"num", 0>>, p + 1) ELSE ParseDigits(s, p, 0)
      q == whole.pos
  IN IF q <= Len(s) /\ s[q] = "."
       THEN IF q + 1 <= Len(s) /\ s[q + 1] \in Digits
              THEN ParseDecimals(s, q + 1, whole.val[2], 0)
              ELSE ParseFail
       ELSE whole

Matches(s, p, word) ==
  /\ p + Len(word) - 1 <= Len(s)
  /\ SubSeq(s, p, p + Len(word) - 1) = word

ParseLiteral(s, p) ==
  IF Matches(s, p, <<"t", "r", "u", "e">>) THEN ParseOk(<<"bool", TRUE>>, p + 4)
  ELSE IF Matches(s, p, <<"f", "a", "l", "s", "e">>) THEN ParseOk(<<"bool", FALSE>>, p + 5)
  ELSE IF Matches(s, p, <<"n", "u", "l", "l">>) THEN ParseOk(NullValue, p + 4)
  ELSE ParseFail

\* Setting a key of an object: a repeated key keeps the last value.
PutKey(f, k, v) == [x \in (DOMAIN f) \cup {k} |-> IF x = k THEN v ELSE f[x]]

RECURSIVE ParseValue(_, _)
RECURSIVE ParseElements(_, _, _)
RECURSIVE ParseMembers(_, _, _)

ParseValue(s, p0) ==
  LET p == SkipWs(s, p0) IN
  IF p > Len(s) THEN ParseFail
  ELSE IF s[p] = "\"" THEN ParseString(s, p + 1, <<>>)
  ELSE IF s[p] = "["
    THEN LET q == SkipWs(s, p + 1) IN
         IF q <= Len(s) /\ s[q] = "]"
           THEN ParseOk(<<"arr", <<>>>>, q + 1)
           ELSE ParseElements(s, p + 1, <<>>)
  ELSE IF s[p] = "{"
    THEN LET q == SkipWs(s, p + 1) IN
         IF q <= Len(s) /\ s[q] = "}"
           THEN ParseOk(<<"obj", <<>>>>, q + 1)
           ELSE ParseMembers(s, p + 1, <<>>)
  ELSE IF s[p] \in Digits THEN ParseNumber(s, p)
  ELSE ParseLiteral(s, p)

\* p is the index of the next element, acc the elements decoded so far.
ParseElements(s, p, acc) ==
  LET r == ParseValue(s, p) IN
  IF ~r.ok THEN ParseFail
  ELSE LET q == SkipWs(s, r.pos) IN
       IF q > Len(s) THEN ParseFail
       ELSE IF s[q] = "," THEN ParseElements(s, q + 1, Append(acc, r.val))
       ELSE IF s[q] = "]" THEN ParseOk(<<"arr", Append(acc, r.val)>>, q + 1)
       ELSE ParseFail

\* p is the index of the next member, acc the object decoded so far.
ParseMembers(s, p, acc) ==
  LET q == SkipWs(s, p) IN
  IF q > Len(s) \/ s[q] # "\"" THEN ParseFail
  ELSE LET k == ParseString(s, q + 1, <<>>) IN
       IF ~k.ok THEN ParseFail
       ELSE LET c == SkipWs(s, k.pos) IN
            IF c > Len(s) \/ s[c] # ":" THEN ParseFail
            ELSE LET v == ParseValue(s, c + 1) IN
                 IF ~v.ok THEN ParseFail
                 ELSE LET e == SkipWs(s, v.pos)
                          obj == PutKey(acc, k.val[2], v.val)
                      IN IF e > Len(s) THEN ParseFail
                         ELSE IF s[e] = "," THEN ParseMembers(s, e + 1, obj)
                         ELSE IF s[e] = "}" THEN ParseOk(<<"obj", obj>>, e + 1)
                         ELSE ParseFail

\* JSON.parse(s): one value, white space around it, nothing else.
JSONParse(s) ==
  LET r == ParseValue(s, 1) IN
  IF r.ok /\ SkipWs(s, r.pos) > Len(s) THEN r ELSE ParseFail

\* ------------------------------------------------------------------------
\* Bounds of the model
\* ------------------------------------------------------------------------

\* The parse requests the worker receives.
RunIds == {1, 2}

\* The generated array texts have at most this many elements.
MaxItems == 2

\* The scan loop reports progress every 10000 characters (line 108) and the
\* whole-document loop every 50000 (line 46); the model keeps the two loops
\* and scales the two intervals down to the lengths of the texts it draws.
ScanReportEvery == 4

chunkSize == 3

\* ------------------------------------------------------------------------
\* The chunk scanner (parseArrayStream, lines 96-149)
\* ------------------------------------------------------------------------

ScanInit ==
  [arrayItems |-> <<>>, currentItem |-> <<>>, braceCount |-> 0,
   bracketCount |-> 0, inString |-> FALSE, escapeNext |-> FALSE]

Keep(st, char) == [st EXCEPT !.currentItem = Append(@, char)]

\* ScanStep without the string state: every quote, brace, bracket and comma
\* counts wherever it stands.
ScanStepNoStrings(st, char) ==
  IF char = "{" THEN Keep([st EXCEPT !.braceCount = @ + 1], char)
  ELSE IF char = "}" THEN Keep([st EXCEPT !.braceCount = @ - 1], char)
  ELSE IF char = "[" THEN Keep([st EXCEPT !.bracketCount = @ + 1], char)
  ELSE IF char = "]" THEN Keep([st EXCEPT !.bracketCount = @ - 1], char)
  ELSE IF char = "," /\ st.braceCount = 0 /\ st.bracketCount = 0
    THEN [st EXCEPT !.arrayItems = Append(@, Trim(st.currentItem)),
                    !.currentItem = <<>>]
  ELSE Keep(st, char)

\* ScanStep with the comma test ignoring the bracket depth.
ScanStepAnyBracketDepth(st, char) ==
  IF st.escapeNext
    THEN Keep([st EXCEPT !.escapeNext = FALSE], char)
  ELSE IF char = "\\" /\ st.inString
    THEN Keep([st EXCEPT !.escapeNext = TRUE], char)
  ELSE LET q == IF char = "\"" THEN [st EXCEPT !.inString = ~st.inString] ELSE st
       IN IF q.inString THEN Keep(q, char)
          ELSE IF char = "{" THEN Keep([q EXCEPT !.braceCount = @ + 1], char)
          ELSE IF char = "}" THEN Keep([q EXCEPT !.braceCount = @ - 1], char)
          ELSE IF char = "[" THEN Keep([q EXCEPT !.bracketCount = @ + 1], char)
          ELSE IF char = "]" THEN Keep([q EXCEPT !.bracketCount = @ - 1], char)
          ELSE IF char = "," /\ q.braceCount = 0
            THEN [q EXCEPT !.arrayItems = Append(@, Trim(q.currentItem)),
                           !.currentItem = <<>>]
          ELSE Keep(q, char)

\* One iteration of the scan loop on character char (lines 114-143).
ScanStep(st, char) ==
  IF st.escapeNext
    THEN Keep([st EXCEPT !.escapeNext = FALSE], char)
  ELSE IF char = "\\" /\ st.inString
    THEN Keep([st EXCEPT !.escapeNext = TRUE], char)
  ELSE LET q == IF char = "\"" /\ ~st.escapeNext
                  THEN [st EXCEPT !.inString = ~st.inString] ELSE st
       IN IF q.inString THEN Keep(q, char)
          ELSE IF char = "{" THEN Keep([q EXCEPT !.braceCount = @ + 1], char)
          ELSE IF char = "}" THEN Keep([q EXCEPT !.braceCount = @ - 1], char)
          ELSE IF char = "[" THEN Keep([q EXCEPT !.bracketCount = @ + 1], char)
          ELSE IF char = "]" THEN Keep([q EXCEPT !.bracketCount = @ - 1], char)
          ELSE IF char = "," /\ q.braceCount = 0 /\ q.bracketCount = 0
            THEN [q EXCEPT !.arrayItems = Append(@, Trim(q.currentItem)),
                           !.currentItem = <<>>]
          ELSE Keep(q, char)

\* The scan loop from character k (1-based) of innerContent on.
RECURSIVE ScanFrom(_, _, _)
ScanFrom(innerContent, k, st) ==
  IF k > Len(innerContent) THEN st
  ELSE ScanFrom(innerContent, k + 1, ScanStep(st, innerContent[k]))

\* ScanItems without the push of the last item after the loop.
ScanItemsNoLast(innerContent) == ScanFrom(innerContent, 1, ScanInit).arrayItems

\* The element texts of innerContent: the loop, then the last item
\* (lines 146-149).
ScanItems(innerContent) ==
  LET st == ScanFrom(innerContent, 1, ScanInit) IN
  IF Len(Trim(st.currentItem)) > 0
    THEN Append(st.arrayItems, Trim(st.currentItem))
    ELSE st.arrayItems

\* ------------------------------------------------------------------------
\* Messages posted by the worker (lines 8-25, 198-235)
\* ------------------------------------------------------------------------

Fraction(n, d) == [num |-> n, den |-> d]

Hundred == Fraction(100, 1)

ProgressMessage(progress, done, total) ==
  [type |-> "progress", progress |-> progress, processed |-> done, total |-> total]

PartialMessage(data, count) ==
  [type |-> "partial", data |-> data, count |-> count]

NoError == "none"

CompleteMessage(data, error) ==
  [type |-> "complete", data |-> data, error |-> error]

ArrayError == "Failed to parse JSON array: Not a valid JSON array"

DocumentError == "Failed to parse JSON: SyntaxError"

\* The progress reports of the scan loop from index i (0-based) on
\* (lines 106-112).
RECURSIVE ScanReports(_, _, _)
ScanReports(i, len, total) ==
  IF i >= len THEN <<>>
  ELSE <<ProgressMessage(Fraction(i * 70, total), i, total)>>
         \o ScanReports(i + ScanReportEvery, len, total)

Min(a, b) == IF a < b THEN a ELSE b

Max(a, b) == IF a > b THEN a ELSE b

\* ChunkReport on a scale of 100 instead of 80.
ChunkReportFullScale(i, total) ==
  LET done == Min(i + chunkSize, total) IN
  ProgressMessage(Fraction(done * 100, total), done, total)

\* The report of the whole-document loop at index i (lines 52-54).
ChunkReport(i, total) ==
  LET done == Min(i + chunkSize, total) IN
  ProgressMessage(Fraction(done * 80, total), done, total)

\* DecodeBatch giving up the batch at its first item that fails.
RECURSIVE DecodeBatchAbort(_)
DecodeBatchAbort(batch) ==
  IF batch = <<>> THEN <<>>
  ELSE LET r == JSONParse(Head(batch)) IN
       IF r.ok THEN <<r.val>> \o DecodeBatchAbort(Tail(batch)) ELSE <<>>

\* DecodeBatch pushing null for an item that fails instead of skipping it.
RECURSIVE DecodeBatchNulls(_)
DecodeBatchNulls(batch) ==
  IF batch = <<>> THEN <<>>
  ELSE <<JSONParse(Head(batch)).val>> \o DecodeBatchNulls(Tail(batch))

\* The items of a batch that decode, in order (lines 158-166).
RECURSIVE DecodeBatch(_)
DecodeBatch(batch) ==
  IF batch = <<>> THEN <<>>
  ELSE LET r == JSONParse(Head(batch)) IN
       (IF r.ok THEN <<r.val>> ELSE <<>>) \o DecodeBatch(Tail(batch))

BatchSize(n) == Max(1, n \div 10)

\* arrayItems.slice(i, i + batchSize), i 0-based.
BatchAt(spans, i) == SubSeq(spans, i + 1, Min(i + BatchSize(Len(spans)), Len(spans)))

\* BatchReport counting the items left instead of the items done.
BatchReportRemaining(i, batchLen, n, done, total) ==
  ProgressMessage(Fraction(70 * n + (n - i - batchLen) * 30, n), done, total)

\* The report after the batch at index i (lines 170-171).
BatchReport(i, batchLen, n, done, total) ==
  ProgressMessage(Fraction(70 * n + (i + batchLen) * 30, n), done, total)

\* PartialAfter posting the last item alone instead of the snapshot.
PartialAfterLastOnly(flag, acc, n) ==
  IF flag /\ Len(acc) % (BatchSize(n) * 2) = 0
    THEN <<PartialMessage(IF acc = <<>> THEN <<>> ELSE <<acc[Len(acc)]>>, Len(acc))>>
    ELSE <<>>

\* PartialAfter without the test of the flag: onPartial always passed.
PartialAfterAnyFlag(flag, acc, n) ==
  IF Len(acc) % (BatchSize(n) * 2) = 0
    THEN <<PartialMessage(acc, Len(acc))>>
    ELSE <<>>

\* The partial result after a batch, if any (lines 174-176).
PartialAfter(flag, acc, n) ==
  IF flag /\ Len(acc) % (BatchSize(n) * 2) = 0
    THEN <<PartialMessage(acc, Len(acc))>>
    ELSE <<>>

\* ------------------------------------------------------------------------
\* State: one record of fields per parse request
\* ------------------------------------------------------------------------

VARIABLES
  fileContent,  \* the text of the request
  isArray,      \* the flag of the request
  pc,           \* "idle", "chunkWait" (line 59), "batchWait" (line 179), "done"
  idx,          \* the loop index i of the suspended loop
  arrayItems,   \* the element texts found by the scanner
  items,        \* the accumulated result
  processed,    \* the variable processed of parseArrayStream
  posted        \* the messages posted for the request, oldest first

workerVars == <<fileContent, isArray, pc, idx, arrayItems, items, processed, posted>>

\* ------------------------------------------------------------------------
\* The texts the requests carry
\* ------------------------------------------------------------------------

\* Element texts: the string  "\",]"  , which holds an escaped quote, a
\* comma and a bracket, and the bare word x, which does not decode; the
\* given texts below mix them with numbers.
Elems ==
  { <<"\"", "\\", "\"", ",", "]", "\"">>,
    <<"x">> }

ElemSeqs == UNION {[1..n -> Elems] : n \in 0..MaxItems}

\* Element texts with a string left open: a quote that nothing closes.
OpenString == <<"\"", "a">>

OpenElems == {<<"1">>, OpenString}

OpenElemSeqs == UNION {[1..n -> OpenElems] : n \in 0..MaxItems}

RECURSIVE Join(_)
Join(es) ==
  IF Len(es) = 0 THEN <<>>
  ELSE IF Len(es) = 1 THEN es[1]
  ELSE es[1] \o <<",">> \o Join(Tail(es))

ArrayText(es) == <<"[">> \o Join(es) \o <<"]">>

\* n copies of the pair  x,1  : an array text whose batches hold two items.
RECURSIVE Alternating(_)
Alternating(n) ==
  IF n = 0 THEN <<>>
  ELSE <<<<"x">>, <<"1">>>> \o Alternating(n - 1)

\* The element x, which does not decode, before n elements 1: with twenty
\* elements the batches hold two, and the first batch yields one item.
RECURSIVE AfterFailure(_)
AfterFailure(n) ==
  IF n = 0 THEN <<<<"x">>>>
  ELSE Append(AfterFailure(n - 1), <<"1">>)

ObjectText == <<"{", "\"", "a", "\"", ":", "1", "}">>

QuotedText ==
  <<"[", "{", "\"", "a", "\"", ":", "\"", "x", ",", "{", "}", "[", "]", "y", "\"", "}",
    ",", "{", "\"", "a", "\"", ":", "2", "}", "]">>

GivenTexts ==
  { ObjectText,
    QuotedText,
    <<>>,
    <<"1">>,
    <<"{">>,
    <<"{", "\"", "a", "\"", ":">>,
    <<" ", "\"", "a", "\"">>,
    <<"[">>,
    <<"[", "1">>,
    <<"[", "1", ",", "1">>,
    <<"[", " ", " ", " ", "]">>,
    <<" ", "[", "]", " ">>,
    <<"[", " ", "1", " ", ",", " ", "2", " ", "]">>,
    <<"[", "[", "1", ",", "2", "]", ",", "{", "}", "]">>,
    <<"[", "\"", "\\", "\\", "\"", ",", "1", "]">>,
    <<"[", "1", ",", "]">>,
    <<"[", ",", "]">>,
    <<"[", "}", ",", "1", "]">>,
    ArrayText(<<<<"1">>, <<"x">>>>),
    ArrayText(<<<<"x">>, <<"1">>>>),
    ArrayText(<<<<"1">>, <<"\"", "\\", "\"", ",", "]", "\"">>>>),
    ArrayText(<<<<"\"", "\\", "\"", ",", "]", "\"">>, <<"1">>>>),
    ArrayText(<<<<"1">>, <<"1">>, <<"x">>>>),
    ArrayText(<<<<"1">>, <<"2">>, <<"1">>, <<"2">>>>),
    ArrayText(Alternating(10)),
    ArrayText(AfterFailure(19)) }

Texts == {ArrayText(es) : es \in ElemSeqs \cup OpenElemSeqs} \cup GivenTexts

\* ------------------------------------------------------------------------
\* The worker
\* ------------------------------------------------------------------------

WorkerInit ==
  /\ fileContent = [r \in RunIds |-> <<>>]
  /\ isArray = [r \in RunIds |-> FALSE]
  /\ pc = [r \in RunIds |-> "idle"]
  /\ idx = [r \in RunIds |-> 0]
  /\ arrayItems = [r \in RunIds |-> <<>>]
  /\ items = [r \in RunIds |-> <<>>]
  /\ processed = [r \in RunIds |-> 0]
  /\ posted = [r \in RunIds |-> <<>>]

\* self.onmessage after parseJsonStream returned data (lines 225-228).
OnResolved(data) == <<CompleteMessage(data, NoError)>>

\* OnRejected that logs the error and posts nothing.
OnRejectedSilent(error) == <<>>

\* self.onmessage after parseJsonStream threw (lines 229-235).
OnRejected(error) == <<CompleteMessage(NullValue, error)>>

\* The run of request r ends with the messages msgs.
Finish(r, msgs) ==
  /\ posted' = [posted EXCEPT ![r] = @ \o msgs]
  /\ pc' = [pc EXCEPT ![r] = "done"]

\* The run of request r posts msgs and suspends at the timer of loop index i.
Suspend(r, msgs, at, i) ==
  /\ posted' = [posted EXCEPT ![r] = @ \o msgs]
  /\ pc' = [pc EXCEPT ![r] = at]
  /\ idx' = [idx EXCEPT ![r] = i]

\* Framed without the test of the closing bracket.
FramedStartOnly(trimmed) == StartsWith(trimmed, "[")

\* The array check of parseArrayStream (line 87).
Framed(trimmed) == StartsWith(trimmed, "[") /\ EndsWith(trimmed, "]")

\* InnerContent keeping the closing bracket: slice(1) for slice(1, -1).
InnerContentToEnd(trimmed) == Trim(SubSeq(trimmed, 2, Len(trimmed)))

\* trimmed.slice(1, -1).trim() (line 91).
InnerContent(trimmed) == Trim(SubSeq(trimmed, 2, Len(trimmed) - 1))

\* WholeDocument reporting 100 before the decode instead of after it.
WholeDocumentReportFirst(r, content, i, msgs) ==
  LET total == Len(content)
      res == JSONParse(content)
      all == msgs \o <<ProgressMessage(Hundred, total, total)>>
  IN IF i < total
       THEN Suspend(r, msgs \o <<ChunkReport(i, total)>>, "chunkWait", i)
       ELSE /\ idx' = idx
            /\ IF res.ok
                 THEN Finish(r, all \o OnResolved(res.val))
                 ELSE Finish(r, all \o OnRejected(DocumentError))

\* The whole-document loop of parseJsonStream at the test of index i > 0,
\* msgs being posted since the last suspension (lines 51-65, 66-72).
WholeDocument(r, content, i, msgs) ==
  LET total == Len(content)
      res == JSONParse(content)
  IN IF i < total
       THEN Suspend(r, msgs \o <<ChunkReport(i, total)>>, "chunkWait", i)
       ELSE /\ idx' = idx
            /\ IF res.ok
                 THEN Finish(r, msgs \o <<ProgressMessage(Hundred, total, total)>>
                                  \o OnResolved(res.val))
                 ELSE Finish(r, msgs \o OnRejected(DocumentError))

\* ArrayBatches suspending right after the append: the report and the
\* partial result of a batch are left out of its turn.
ArrayBatchesSuspendEarly(r, flag, spans, acc, i, done, total, msgs) ==
  LET n == Len(spans)
      batch == BatchAt(spans, i)
      grown == acc \o DecodeBatch(batch)
  IN IF i < n
       THEN /\ items' = [items EXCEPT ![r] = grown]
            /\ Suspend(r, msgs, "batchWait", i)
       ELSE /\ items' = items
            /\ idx' = idx
            /\ Finish(r, msgs \o <<ProgressMessage(Hundred, total, total)>>
                           \o OnResolved(<<"arr", acc>>))

\* The batch loop of parseArrayStream at the test of index i, acc being
\* the items so far and msgs posted since the last suspension
\* (lines 154-183).
ArrayBatches(r, flag, spans, acc, i, done, total, msgs) ==
  LET n == Len(spans)
      batch == BatchAt(spans, i)
      grown == acc \o DecodeBatch(batch)
  IN IF i < n
       THEN /\ items' = [items EXCEPT ![r] = grown]
            /\ Suspend(r, msgs \o <<BatchReport(i, Len(batch), n, done, total)>>
                            \o PartialAfter(flag, grown, n), "batchWait", i)
       ELSE /\ items' = items
            /\ idx' = idx
            /\ Finish(r, msgs \o <<ProgressMessage(Hundred, total, total)>>
                           \o OnResolved(<<"arr", acc>>))

\* parseArrayStream up to its first suspension (lines 80-180).
ArrayStart(r, content, flag) ==
  LET total == Len(content)
      trimmed == Trim(content)
      innerContent == InnerContent(trimmed)
      spans == ScanItems(innerContent)
      last == Len(innerContent) - 1
  IN IF ~Framed(trimmed)
       THEN /\ Finish(r, OnRejected(ArrayError))
            /\ UNCHANGED <<idx, arrayItems, items, processed>>
     ELSE IF innerContent = <<>>
       THEN /\ Finish(r, OnResolved(<<"arr", <<>>>>))
            /\ UNCHANGED <<idx, arrayItems, items, processed>>
     ELSE /\ arrayItems' = [arrayItems EXCEPT ![r] = spans]
          /\ processed' = [processed EXCEPT ![r] = last]
          /\ ArrayBatches(r, flag, spans, <<>>, 0, last, total,
                          ScanReports(0, Len(innerContent), total))

\* parseJsonStream up to its first suspension (lines 36-61).
DocumentStart(r, content) ==
  /\ UNCHANGED <<arrayItems, items, processed>>
  /\ IF Len(content) = 0
       THEN WholeDocument(r, content, 0, <<>>)
       ELSE WholeDocument(r, content, chunkSize, <<ChunkReport(0, Len(content))>>)

\* self.onmessage: a parse request arrives (lines 193-223).
Receive(r, content, flag) ==
  /\ pc[r] = "idle"
  /\ \A q \in RunIds : q < r => pc[q] # "idle"
  /\ fileContent' = [fileContent EXCEPT ![r] = content]
  /\ isArray' = [isArray EXCEPT ![r] = flag]
  /\ IF StartsWith(Trim(content), "[")
       THEN ArrayStart(r, content, flag)
       ELSE DocumentStart(r, content)

\* The timer of line 59 fires: the whole-document loop goes on.
ChunkResume(r) ==
  /\ pc[r] = "chunkWait"
  /\ WholeDocument(r, fileContent[r], idx[r] + chunkSize, <<>>)
  /\ UNCHANGED <<fileContent, isArray, arrayItems, items, processed>>

\* BatchResume with the accumulated result kept in one place for all the
\* runs (the result of the first request) instead of one per run.
BatchResumeShared(r) ==
  /\ pc[r] = "batchWait"
  /\ ArrayBatches(r, isArray[r], arrayItems[r], items[1],
                  idx[r] + BatchSize(Len(arrayItems[r])), processed[r],
                  Len(fileContent[r]), <<>>)
  /\ UNCHANGED <<fileContent, isArray, arrayItems, processed>>

\* The timer of line 179 fires: the batch loop goes on.
BatchResume(r) ==
  /\ pc[r] = "batchWait"
  /\ ArrayBatches(r, isArray[r], arrayItems[r], items[r],
                  idx[r] + BatchSize(Len(arrayItems[r])), processed[r],
                  Len(fileContent[r]), <<>>)
  /\ UNCHANGED <<fileContent, isArray, arrayItems, processed>>

\* ------------------------------------------------------------------------
\* Schema inference (inferJsonSchema)
\* A schema is a record with the fields that are set: type, and items,
\* properties (a function from keys to schemas) or example.
\* ------------------------------------------------------------------------

IsArray(value) == value[1] = "arr"

\* Number.isInteger on a number value.
IsInteger(value) == Len(value) = 2

\* getType (lines 15-23).
GetType(value) ==
  IF value = NullValue THEN "null"
  ELSE IF IsArray(value) THEN "array"
  ELSE IF value[1] = "obj" THEN "object"
  ELSE IF value[1] = "num" THEN (IF IsInteger(value) THEN "integer" ELSE "number")
  ELSE IF value[1] = "str" THEN "string"
  ELSE "boolean"

\* PrimitiveTypes without "integer".
PrimitiveTypesNoInteger == {"string", "number", "boolean"}

\* The types that get an example (line 44).
PrimitiveTypes == {"string", "number", "integer", "boolean"}

UnknownSchema == [type |-> "unknown"]

RECURSIVE InferPropertySchema(_)

\* ItemsOf inferring from the last element instead of the first.
ItemsOfLast(elements) ==
  IF Len(elements) > 0
    THEN InferPropertySchema(elements[Len(elements)])
    ELSE UnknownSchema

\* The items schema of an array (lines 30-35).
ItemsOf(elements) ==
  IF Len(elements) > 0
    THEN InferPropertySchema(elements[1])
    ELSE UnknownSchema

\* The key whose assignment  properties[key] = schema  (line 39) reaches
\* the setter inherited from Object.prototype: it replaces the prototype of
\* properties and adds no own field.  JSON.parse defines the same key as an
\* own field of the value, so Object.entries lists it.
ProtoKey == <<"_", "_", "p", "r", "o", "t", "o", "_", "_">>

\* The own fields of properties after the loop of lines 38-40.
AssignedKeys(fields) == DOMAIN fields \ {ProtoKey}

\* inferPropertySchema (lines 25-49).
InferPropertySchema(value) ==
  LET type == GetType(value)
      schema == [type |-> type]
      shaped ==
        IF type = "array" /\ IsArray(value)
          THEN schema @@ ("items" :> ItemsOf(value[2]))
        ELSE IF type = "object"
          THEN schema @@ ("properties" :>
                 [key \in AssignedKeys(value[2]) |-> InferPropertySchema(value[2][key])])
        ELSE schema
  IN IF type \in PrimitiveTypes
       THEN shaped @@ ("example" :> value)
       ELSE shaped

\* inferJsonSchema (lines 51-53).
InferJsonSchema(data) == InferPropertySchema(data)

\* The values inference is applied to: the atoms, the arrays and objects of
\* atoms, and the arrays and objects of those.
Atoms ==
  { NullValue, <<"bool", TRUE>>, <<"bool", FALSE>>, <<"num", 1>>,
    <<"num", 15, 1>>, <<"str", <<"s">>>> }

Keys == {<<"a">>, <<"b">>}

ArraysOf(values, n) == {<<"arr", elements>> : elements \in UNION {[1..m -> values] : m \in 0..n}}

ObjectsOf(values) ==
  {<<"obj", fields>> : fields \in UNION {[ks -> values] : ks \in SUBSET Keys}}

Shallow == Atoms \cup ArraysOf(Atoms, MaxItems) \cup ObjectsOf(Atoms)

\* The value of the text  [{"a":1},{"a":"s","b":true}] .
MixedArray ==
  JSONParse(<<"[", "{", "\"", "a", "\"", ":", "1", "}", ",",
              "{", "\"", "a", "\"", ":", "\"", "s", "\"", ",",
              "\"", "b", "\"", ":", "t", "r", "u", "e", "}", "]">>).val

\* What may follow the first element of an array.
Followers == {<<"num", 15, 1>>, <<"arr", <<>>>>, MixedArray[2][2]}

\* The value of the text  {"__proto__":1} .
ProtoObject ==
  JSONParse(<<"{", "\"", "_", "_", "p", "r", "o", "t", "o", "_", "_", "\"",
              ":", "1", "}">>).val

InferValues ==
  Shallow
    \cup {<<"arr", <<first>>>> : first \in Shallow}
    \cup {<<"arr", <<first, other>>>> : first \in Shallow, other \in Followers}
    \cup {<<"obj", (<<"a">> :> inner)>> : inner \in Shallow}
    \cup { ProtoObject, <<"arr", <<ProtoObject>>>>,
           <<"obj", (ProtoKey :> <<"arr", <<>>>> @@ <<"a">> :> <<"str", <<"s">>>>)>> }

NotInferred == [type |-> "pending"]

VARIABLES
  inferInput,   \* the value passed to inferJsonSchema
  inferOutput   \* the schema it returned, NotInferred before the call

inferVars == <<inferInput, inferOutput>>

\* No inference is under way.
InferIdle ==
  /\ inferInput = NullValue
  /\ inferOutput = NotInferred

\* inferJsonSchema is called and returns.
Infer ==
  /\ inferOutput = NotInferred
  /\ inferOutput' = InferJsonSchema(inferInput)
  /\ UNCHANGED inferInput

\* ------------------------------------------------------------------------
\* The scan loop, one iteration at a time (parseArrayStream, lines 104-144)
\* ------------------------------------------------------------------------

\* The inner contents the scan loop walks: those of the framed texts.
ScanTexts == {InnerContent(Trim(text)) : text \in {t \in Texts : Framed(Trim(t))}}

VARIABLES
  scanText,   \* innerContent
  scanAt,     \* the number of iterations done, the loop index i
  scanState   \* the locals of lines 97-102

scanVars == <<scanText, scanAt, scanState>>

pureVars == <<inferVars, scanVars>>

\* No scan is looked at.
ScanIdle ==
  /\ scanText = <<>>
  /\ scanAt = 0
  /\ scanState = ScanInit

\* One iteration of the loop of line 104.
ScanChar ==
  /\ scanAt < Len(scanText)
  /\ scanState' = ScanStep(scanState, scanText[scanAt + 1])
  /\ scanAt' = scanAt + 1
  /\ UNCHANGED scanText

\* ------------------------------------------------------------------------
\* The host of the worker (components/FileDrop.tsx, hooks/useDataAnalysis.ts)
\* A state that is null or an object is the empty sequence or the sequence
\* of that object.  The host runs with a worker (the branch of line 182);
\* the handler of uncaught worker errors never runs, the worker catches all.
\* ------------------------------------------------------------------------

Null == <<>>

Some(object) == <<object>>

\* The files: name, whether type or name pass the test of handleDrop
\* (lines 241-245), and the text file.text() resolves to.
GoodFile == [name |-> "good.json", json |-> TRUE, text |-> <<"[", "1", ",", "2", "]">>]

BadFile == [name |-> "bad.json", json |-> TRUE, text |-> <<"{", "\"", "a", "\"", ":">>]

ZeroFile == [name |-> "zero.json", json |-> TRUE, text |-> <<"0">>]

TextFile == [name |-> "notes.txt", json |-> FALSE, text |-> <<"x">>]

ObjectFile == [name |-> "object.json", json |-> TRUE, text |-> ObjectText]

Files == {GoodFile, ObjectFile, BadFile, ZeroFile, TextFile}

\* file.size, the texts being of one-byte characters.
Size(file) == Len(file.text)

SampleSize == 5

\* The sample passed to the analysis (lines 144-146).
SampleData(data) ==
  IF IsArray(data)
    THEN SubSeq(data[2], 1, Min(SampleSize, Len(data[2])))
    ELSE <<data>>

\* The truth value of a decoded value in  else if (data)  (line 127).
Truthy(value) ==
  CASE value[1] = "null" -> FALSE
    [] value[1] = "bool" -> value[2]
    [] value[1] = "num" -> value[2] # 0
    [] value[1] = "str" -> value[2] # <<>>
    [] OTHER -> TRUE

ObjectCount(data) == IF IsArray(data) THEN Len(data[2]) ELSE 1

\* The sequence without its k-th element.
Without(seq, k) == SubSeq(seq, 1, k - 1) \o SubSeq(seq, k + 1, Len(seq))

VARIABLES
  isProcessing,    \* useState of FileDrop
  parseProgress,   \* useState of FileDrop, null or a progress record
  processedFile,   \* useState of FileDrop, null or the file on display
  error,           \* useState of FileDrop, null or the message shown
  currentFileRef,  \* useRef of FileDrop, null or the file last passed on
  reading,         \* the files whose file.text() has not resolved yet
  inbox,           \* the parse requests posted to the worker, not yet received
  outbox,          \* the messages posted by the worker, not yet handled
  timers,          \* the analyses scheduled by setTimeout, not yet started
  analyses,        \* the analysis requests without response
  insights,        \* useState of useDataAnalysis
  analyzeLoading,  \* useState of useDataAnalysis (loading)
  analyzeError     \* useState of useDataAnalysis (error)

dropVars == <<isProcessing, parseProgress, processedFile, error, currentFileRef>>

analysisVars == <<timers, analyses, insights, analyzeLoading, analyzeError>>

hostVars == <<dropVars, reading, inbox, outbox, analysisVars>>

vars == <<workerVars, pureVars, hostVars>>

HostInit ==
  /\ isProcessing = FALSE
  /\ parseProgress = Null
  /\ processedFile = Null
  /\ error = Null
  /\ currentFileRef = Null
  /\ reading = <<>>
  /\ inbox = <<>>
  /\ outbox = <<>>
  /\ timers = <<>>
  /\ analyses = <<>>
  /\ insights = Null
  /\ analyzeLoading = FALSE
  /\ analyzeError = Null

\* The parse requests made and not yet taken up by a run of the worker,
\* and the runs taken up; the model has a run for each of RunIds.
Requested ==
  Len(reading) + Len(inbox) + Cardinality({r \in RunIds : pc[r] # "idle"})

\* processJsonFile up to the await of file.text() (lines 176-184).
ProcessJsonFile(file) ==
  /\ Requested < Cardinality(RunIds)
  /\ isProcessing' = TRUE
  /\ error' = Null
  /\ parseProgress' = Some([progress |-> Fraction(0, 1), processed |-> 0, total |-> Size(file)])
  /\ currentFileRef' = Some(file)
  /\ reading' = Append(reading, file)
  /\ UNCHANGED <<processedFile, inbox, outbox, analysisVars>>

\* handleDrop (lines 235-254); the drop zone is rendered while no file is
\* on display (line 319).
HandleDrop(file) ==
  /\ processedFile = Null
  /\ IF file.json
       THEN ProcessJsonFile(file)
       ELSE /\ error' = Some("Please drop a file")
            /\ UNCHANGED <<isProcessing, parseProgress, processedFile, currentFileRef,
                           reading, inbox, outbox, analysisVars>>
  /\ UNCHANGED <<workerVars, pureVars>>

\* handleFileSelect (lines 266-274), reached from the Browse button, which
\* is rendered while nothing is on display or being processed (line 338).
HandleFileSelect(file) ==
  /\ processedFile = Null
  /\ ~isProcessing
  /\ ProcessJsonFile(file)
  /\ UNCHANGED <<workerVars, pureVars>>

\* file.text() of the k-th read resolves: processJsonFile from line 184 on.
TextResolved(k) ==
  LET text == reading[k].text
      isLikelyArray == StartsWith(Trim(text), "[")
  IN /\ inbox' = Append(inbox, [type |-> "parse", fileContent |-> text, isArray |-> isLikelyArray])
     /\ reading' = Without(reading, k)
     /\ UNCHANGED <<dropVars, outbox, analysisVars, workerVars, pureVars>>

\* The messages the run of request r posts in this step; postMessage
\* queues them for the host in the order of posting.
NewlyPosted(r) == SubSeq(posted'[r], Len(posted[r]) + 1, Len(posted'[r]))

HostWaits == UNCHANGED <<dropVars, reading, analysisVars, pureVars>>

\* The worker takes the next parse request (self.onmessage).
WorkerReceives(r) ==
  /\ inbox # <<>>
  /\ Receive(r, Head(inbox).fileContent, Head(inbox).isArray)
  /\ inbox' = Tail(inbox)
  /\ outbox' = outbox \o NewlyPosted(r)
  /\ HostWaits

\* A run of the whole-document path resumes at its timer.
WorkerChunkResumes(r) ==
  /\ ChunkResume(r)
  /\ outbox' = outbox \o NewlyPosted(r)
  /\ UNCHANGED inbox
  /\ HostWaits

\* A run of the array path resumes at its timer.
WorkerBatchResumes(r) ==
  /\ BatchResume(r)
  /\ outbox' = outbox \o NewlyPosted(r)
  /\ UNCHANGED inbox
  /\ HostWaits

\* case "progress" (lines 97-104).
OnProgress(event) ==
  /\ parseProgress' = Some([progress |-> event.progress, processed |-> event.processed,
                            total |-> event.total, isStreaming |-> FALSE])
  /\ UNCHANGED <<isProcessing, processedFile, error, currentFileRef, analysisVars>>

\* case "partial" (lines 106-118).
OnPartial(event) ==
  LET prev == IF parseProgress = Null
                THEN [progress |-> Fraction(0, 1), processed |-> 0, total |-> 0]
                ELSE parseProgress[1]
  IN /\ parseProgress' = Some(("isStreaming" :> TRUE @@ "currentCount" :> event.count) @@ prev)
     /\ UNCHANGED <<isProcessing, processedFile, error, currentFileRef, analysisVars>>

\* The ProcessedFile of lines 132-138.
Processed(data) ==
  [ name |-> IF currentFileRef = Null THEN "Unknown" ELSE currentFileRef[1].name,
    data |-> data,
    schema |-> InferJsonSchema(data),
    size |-> IF currentFileRef = Null THEN 0 ELSE Size(currentFileRef[1]),
    objectCount |-> ObjectCount(data) ]

\* The analysis of a processed file (lines 144-147).
AnalysisOf(file) ==
  [schema |-> file.schema, sampleData |-> SampleData(file.data), fileName |-> file.name]

\* case "complete" (lines 120-153).
OnComplete(event) ==
  /\ parseProgress' = Null
  /\ isProcessing' = FALSE
  /\ IF event.error # NoError
       THEN /\ error' = Some(event.error)
            /\ UNCHANGED <<processedFile, timers>>
       ELSE IF Truthy(event.data)
         THEN /\ processedFile' = Some(Processed(event.data))
              /\ timers' = Append(timers, AnalysisOf(Processed(event.data)))
              /\ UNCHANGED error
         ELSE UNCHANGED <<processedFile, timers, error>>
  /\ UNCHANGED <<currentFileRef, analyses, insights, analyzeLoading, analyzeError>>

\* workerRef.current.onmessage (lines 85-153) handles the next message.
OnMessage ==
  /\ outbox # <<>>
  /\ LET event == Head(outbox) IN
       CASE event.type = "progress" -> OnProgress(event)
         [] event.type = "partial" -> OnPartial(event)
         [] event.type = "complete" -> OnComplete(event)
  /\ outbox' = Tail(outbox)
  /\ UNCHANGED <<reading, inbox, workerVars, pureVars>>

\* clearFile (lines 280-288) with clearInsights (useDataAnalysis.ts lines
\* 75-78); its button is rendered with the file on display (line 393).
ClearFile ==
  /\ processedFile # Null
  /\ processedFile' = Null
  /\ error' = Null
  /\ parseProgress' = Null
  /\ insights' = Null
  /\ analyzeError' = Null
  /\ UNCHANGED <<isProcessing, currentFileRef, reading, inbox, outbox,
                 timers, analyses, analyzeLoading, workerVars, pureVars>>

\* The oldest timer of line 142 fires: analyzeSchema up to the await of
\* the request (useDataAnalysis.ts lines 54-58).
TimerFires ==
  /\ timers # <<>>
  /\ analyzeLoading' = TRUE
  /\ analyzeError' = Null
  /\ analyses' = Append(analyses, Head(timers))
  /\ timers' = Tail(timers)
  /\ UNCHANGED <<dropVars, reading, inbox, outbox, insights, workerVars, pureVars>>

\* The k-th request is answered (useDataAnalysis.ts lines 64 and 69).
AnalysisResolves(k) ==
  /\ insights' = Some([of |-> analyses[k].fileName, schema |-> analyses[k].schema])
  /\ analyzeLoading' = FALSE
  /\ analyses' = Without(analyses, k)
  /\ UNCHANGED <<dropVars, reading, inbox, outbox, timers, analyzeError, workerVars, pureVars>>

\* The k-th request fails (useDataAnalysis.ts lines 65-69).
AnalysisRejects(k) ==
  /\ analyzeError' = Some("Failed to analyze data")
  /\ analyzeLoading' = FALSE
  /\ analyses' = Without(analyses, k)
  /\ UNCHANGED <<dropVars, reading, inbox, outbox, timers, insights, workerVars, pureVars>>

\* ------------------------------------------------------------------------
\* Specifications
\* ------------------------------------------------------------------------

\* The worker and its requests.
Init == WorkerInit /\ InferIdle /\ ScanIdle /\ HostInit

Next ==
  \/ \E r \in RunIds, content \in Texts, flag \in BOOLEAN :
       Receive(r, content, flag) /\ UNCHANGED <<pureVars, hostVars>>
  \/ \E r \in RunIds : ChunkResume(r) /\ UNCHANGED <<pureVars, hostVars>>
  \/ \E r \in RunIds : BatchResume(r) /\ UNCHANGED <<pureVars, hostVars>>

Spec == Init /\ [][Next]_vars

\* Schema inference applied to one value.
InitInfer ==
  /\ WorkerInit
  /\ ScanIdle
  /\ HostInit
  /\ inferInput \in InferValues
  /\ inferOutput = NotInferred

NextInfer == Infer /\ UNCHANGED <<workerVars, scanVars, hostVars>>

SpecInfer == InitInfer /\ [][NextInfer]_vars

\* The scan loop applied to one inner content.
InitScan ==
  /\ WorkerInit
  /\ InferIdle
  /\ HostInit
  /\ scanText \in ScanTexts
  /\ scanAt = 0
  /\ scanState = ScanInit

NextScan == ScanChar /\ UNCHANGED <<workerVars, inferVars, hostVars>>

SpecScan == InitScan /\ [][NextScan]_vars

\* The host with its worker, files dropped and selected by the user.
NextHost ==
  \/ \E file \in Files : HandleDrop(file)
  \/ \E file \in Files : HandleFileSelect(file)
  \/ \E k \in 1..Len(reading) : TextResolved(k)
  \/ \E r \in RunIds : WorkerReceives(r)
  \/ \E r \in RunIds : WorkerChunkResumes(r)
  \/ \E r \in RunIds : WorkerBatchResumes(r)
  \/ OnMessage
  \/ ClearFile
  \/ TimerFires
  \/ \E k \in 1..Len(analyses) : AnalysisResolves(k)
  \/ \E k \in 1..Len(analyses) : AnalysisRejects(k)

SpecHost == Init /\ [][NextHost]_vars

\* ------------------------------------------------------------------------
\* Vocabulary of the properties
\* ------------------------------------------------------------------------

IsPrefix(a, b) == Len(a) <= Len(b) /\ SubSeq(b, 1, Len(a)) = a

\* The positions in posted[r] of the messages of a type.
Positions(r, type) == {k \in 1..Len(posted[r]) : posted[r][k].type = type}

LastMessage(r) == posted[r][Len(posted[r])]

\* The run of request r has ended without an error.
Succeeded(r) == pc[r] = "done" /\ LastMessage(r).error = NoError

\* a <= b on fractions.
FractionLeq(a, b) == a.num * b.den <= b.num * a.den

IsHundred(a) == a.num = 100 * a.den

\* Request r takes the array path / has got past the array check.
ArrayPath(r) == pc[r] # "idle" /\ StartsWith(Trim(fileContent[r]), "[")

Scanned(r) == ArrayPath(r) /\ Framed(Trim(fileContent[r]))

\* The values of the element texts that decode, in order.
Survivors(spans) ==
  LET good == SelectSeq(spans, LAMBDA t : JSONParse(t).ok)
  IN [k \in 1..Len(good) |-> JSONParse(good[k]).val]

\* ------------------------------------------------------------------------
\* C1: a run that has ended has posted exactly one 'complete' message, and
\* it is the last message of the run; a run that has not ended has posted
\* none.  So no progress or partial message follows the 'complete' one, on
\* the array path, the whole-document path and the failure paths alike.
\* ------------------------------------------------------------------------
C1_OneCompletionLast ==
  \A r \in RunIds :
    IF pc[r] = "done"
      THEN Positions(r, "complete") = {Len(posted[r])}
      ELSE Positions(r, "complete") = {}

\* Both requests have ended, one with partial results and one with an error.
C1_Witness ==
  \E r, q \in RunIds :
    /\ pc[r] = "done" /\ Positions(r, "partial") # {} /\ Positions(r, "progress") # {}
    /\ pc[q] = "done" /\ LastMessage(q).error # NoError

\* ------------------------------------------------------------------------
\* C2: within a run the fractions of the successive progress messages never
\* decrease (scan reports then batch reports; chunk reports then the report
\* after the decode).
\* ------------------------------------------------------------------------
C2_ProgressMonotone ==
  \A r \in RunIds :
    \A j, k \in Positions(r, "progress") :
      j < k => FractionLeq(posted[r][j].progress, posted[r][k].progress)

\* An array run with two scan reports and several batch reports has ended,
\* and so has a whole-document run with several chunk reports.
C2_Witness ==
  \E r, q \in RunIds :
    /\ Succeeded(r) /\ Scanned(r) /\ Len(arrayItems[r]) >= 2
    /\ \E k \in Positions(r, "progress") :
         /\ posted[r][k].processed > 0
         /\ ~FractionLeq(Fraction(70, 1), posted[r][k].progress)
    /\ Succeeded(q) /\ ~ArrayPath(q)
    /\ Cardinality(Positions(q, "progress")) >= 3

\* ------------------------------------------------------------------------
\* C3 (as claimed): a run that ended without an error has posted a progress
\* message, and the last one carries the fraction 100.
\* ------------------------------------------------------------------------
C3_EndsAtHundred ==
  \A r \in RunIds :
    Succeeded(r) =>
      /\ Positions(r, "progress") # {}
      /\ \A k \in Positions(r, "progress") :
           (\A j \in Positions(r, "progress") : j <= k)
             => IsHundred(posted[r][k].progress)

\* ------------------------------------------------------------------------
\* C4: on the array path, past the array check, no 'complete' message
\* carries an error whatever element texts fail to decode; the accumulated
\* result is at every suspension the values of the texts of the batches done
\* that decode, in order, and the final value is the values of all the texts
\* that decode (the empty sequence when none does).
\* ------------------------------------------------------------------------
C4_ItemFailuresSwallowed ==
  \A r \in RunIds :
    Scanned(r) =>
      /\ \A k \in Positions(r, "complete") : posted[r][k].error = NoError
      /\ pc[r] = "batchWait" =>
           items[r] = Survivors(SubSeq(arrayItems[r], 1,
                        Min(idx[r] + BatchSize(Len(arrayItems[r])), Len(arrayItems[r]))))
      /\ pc[r] = "done" => LastMessage(r).data = <<"arr", Survivors(arrayItems[r])>>

\* A run whose batches each held a failing and a decoding text has ended,
\* and so has a run all of whose texts failed.
C4_Witness ==
  \E r, q \in RunIds :
    /\ Succeeded(r) /\ BatchSize(Len(arrayItems[r])) = 2
    /\ Len(items[r]) = 10 /\ Len(arrayItems[r]) = 20
    /\ Succeeded(q) /\ Len(arrayItems[q]) >= 2
    /\ LastMessage(q).data = <<"arr", <<>>>>

\* ------------------------------------------------------------------------
\* C5 (as claimed): an array text of N elements, one of them a string left
\* open and the others well-formed, ends without an error and with the N-1
\* values of the well-formed elements, wherever the open string stands.
\* ------------------------------------------------------------------------
C5_OneOpenStringDropped ==
  \A r \in RunIds :
    \A es \in OpenElemSeqs :
      ( /\ pc[r] = "done"
        /\ fileContent[r] = ArrayText(es)
        /\ Cardinality({k \in 1..Len(es) : es[k] = OpenString}) = 1
        /\ \A k \in 1..Len(es) : es[k] # OpenString => JSONParse(es[k]).ok )
      => /\ LastMessage(r).error = NoError
         /\ LastMessage(r).data = <<"arr", Survivors(es)>>

\* ------------------------------------------------------------------------
\* C6 (as claimed): a request whose trimmed text does not start with [ and
\* whose flag is set ends with an error and a null value, never with a
\* decoded value.
\* ------------------------------------------------------------------------
C6_ForcedFlagFails ==
  \A r \in RunIds :
    (pc[r] = "done" /\ isArray[r] /\ ~StartsWith(Trim(fileContent[r]), "["))
      => /\ LastMessage(r).error # NoError
         /\ LastMessage(r).data = NullValue

\* ------------------------------------------------------------------------
\* C7: a request whose trimmed text starts with [ and does not end with ]
\* has ended as soon as it is received, with one 'complete' message whose
\* error is set and whose value is null, and with no partial message.
\* ------------------------------------------------------------------------
C7_UnclosedArrayFails ==
  \A r \in RunIds :
    (ArrayPath(r) /\ ~EndsWith(Trim(fileContent[r]), "]")) =>
      /\ pc[r] = "done"
      /\ Cardinality(Positions(r, "complete")) = 1
      /\ LastMessage(r).type = "complete"
      /\ LastMessage(r).error # NoError
      /\ LastMessage(r).data = NullValue
      /\ Positions(r, "partial") = {}

\* A request with the text  [1,1  and the flag set has ended.
C7_Witness ==
  \E r \in RunIds :
    /\ pc[r] = "done" /\ isArray[r]
    /\ fileContent[r] = <<"[", "1", ",", "1">>

\* ------------------------------------------------------------------------
\* C8: for an array text that is well-formed as a whole, the scanner finds
\* as many element texts as the array has top-level elements, and each
\* decodes to its element: punctuation inside a string, escaped quotes and
\* backslashes included, splits nothing.  The text
\* [{"a":"x,{}[]y"},{"a":2}]  gives two element texts, the first with
\* a = "x,{}[]y".
\* ------------------------------------------------------------------------
C8_NoSplitInsideStrings ==
  \A r \in RunIds :
    LET whole == JSONParse(fileContent[r]) IN
    (Scanned(r) /\ whole.ok) =>
      /\ Len(arrayItems[r]) = Len(whole.val[2])
      /\ \A k \in 1..Len(arrayItems[r]) :
           JSONParse(arrayItems[r][k]) = ParseOk(whole.val[2][k], Len(arrayItems[r][k]) + 1)
      /\ fileContent[r] = QuotedText =>
           JSONParse(arrayItems[r][1]).val
             = <<"obj", (<<"a">> :> <<"str", <<"x", ",", "{", "}", "[", "]", "y">>>>)>>

\* The text of the example has been scanned, and so has an array of two
\* strings that hold an escaped quote, a comma and a bracket.
C8_Witness ==
  \E r, q \in RunIds :
    /\ Scanned(r) /\ fileContent[r] = QuotedText /\ Len(arrayItems[r]) = 2
    /\ Scanned(q) /\ Len(arrayItems[q]) = 2
    /\ \A k \in 1..2 : arrayItems[q][k] = <<"\"", "\\", "\"", ",", "]", "\"">>

\* ------------------------------------------------------------------------
\* C9: within a run, the snapshot of each partial message is a prefix of
\* the snapshot of every later one and of the final value, its count is the
\* length of its snapshot, and a message once posted is never changed: the
\* messages of a run only grow at the end.
\* ------------------------------------------------------------------------
SnapshotsGrow ==
  \A r \in RunIds :
    \A j \in Positions(r, "partial") :
      /\ posted[r][j].count = Len(posted[r][j].data)
      /\ \A k \in Positions(r, "partial") :
           j < k => IsPrefix(posted[r][j].data, posted[r][k].data)
      /\ pc[r] = "done" => IsPrefix(posted[r][j].data, LastMessage(r).data[2])

PostedOnlyAppended == \A r \in RunIds : IsPrefix(posted[r], posted'[r])

C9_SnapshotsArePrefixes == []SnapshotsGrow /\ [][PostedOnlyAppended]_vars

\* A run has ended after two partial messages with different snapshots,
\* the first of them not empty.
C9_Witness ==
  \E r \in RunIds :
    /\ Succeeded(r)
    /\ \E j, k \in Positions(r, "partial") :
         /\ j < k
         /\ posted[r][j].count > 0
         /\ posted[r][j].count < posted[r][k].count

\* ------------------------------------------------------------------------
\* C10 (as claimed): within a run the count strictly increases from each
\* partial message to the next.
\* ------------------------------------------------------------------------
C10_CountStrictlyIncreases ==
  \A r \in RunIds :
    \A j, k \in Positions(r, "partial") :
      j < k => posted[r][j].count < posted[r][k].count

\* ------------------------------------------------------------------------
\* C11: a run that has posted a partial message takes the array path and
\* its request set the flag; a run on the whole-document path posts no
\* partial message, whatever the flag.
\* ------------------------------------------------------------------------
C11_PartialsOnlyForFlaggedArrays ==
  \A r \in RunIds :
    Positions(r, "partial") # {} => (ArrayPath(r) /\ isArray[r])

\* A flagged array run has posted a partial message, and a flagged run on
\* the whole-document path has ended with a decoded value.
C11_Witness ==
  \E r, q \in RunIds :
    /\ Positions(r, "partial") # {} /\ isArray[r]
    /\ Succeeded(q) /\ isArray[q] /\ ~ArrayPath(q)
    /\ Cardinality(Positions(q, "progress")) >= 2

\* ------------------------------------------------------------------------
\* C12: the final value of an array run is the sequence of the values of
\* the element texts that decode, taken in the order of the scanner: there
\* is a strictly increasing choice of positions of decoding element texts
\* that covers all of them and gives the result item by item.  Its length is
\* at most the number of element texts, and equal to it exactly when none
\* failed.
\* ------------------------------------------------------------------------
DecodingPositions(spans) == {k \in 1..Len(spans) : JSONParse(spans[k]).ok}

\* The position in spans of the j-th element text that decodes.
NthDecoding(spans, j) ==
  CHOOSE k \in DecodingPositions(spans) :
    Cardinality({m \in DecodingPositions(spans) : m <= k}) = j

C12_ResultIsDecodedSpansInOrder ==
  \A r \in RunIds :
    (Scanned(r) /\ pc[r] = "done") =>
      LET result == LastMessage(r).data[2]
          spans == arrayItems[r]
      IN /\ Len(result) = Cardinality(DecodingPositions(spans))
         /\ \A j \in 1..Len(result) :
              result[j] = JSONParse(spans[NthDecoding(spans, j)]).val
         /\ Len(result) <= Len(spans)
         /\ Len(result) = Len(spans) <=> \A k \in 1..Len(spans) : JSONParse(spans[k]).ok

\* A run of twenty element texts of which every other one failed has ended,
\* and so has a run of several element texts none of which failed.
C12_Witness ==
  \E r, q \in RunIds :
    /\ Succeeded(r) /\ Len(arrayItems[r]) = 20 /\ Len(LastMessage(r).data[2]) = 10
    /\ Succeeded(q) /\ Len(arrayItems[q]) >= 2
    /\ Len(LastMessage(q).data[2]) = Len(arrayItems[q])

\* ------------------------------------------------------------------------
\* C13: an array text whose interior is empty or blank ends at once,
\* without an error and with zero elements; the text after the last
\* top-level comma is the last element text when it is not blank (an array
\* text built of n elements gives n element texts, the last of them the last
\* element), and no element text when it is blank.
\* ------------------------------------------------------------------------
C13_EmptyInteriorAndLastSpan ==
  \A r \in RunIds :
    Scanned(r) =>
      /\ InnerContent(Trim(fileContent[r])) = <<>> =>
           /\ pc[r] = "done"
           /\ LastMessage(r) = CompleteMessage(<<"arr", <<>>>>, NoError)
           /\ arrayItems[r] = <<>>
      /\ \A es \in ElemSeqs :
           (Len(es) > 0 /\ fileContent[r] = ArrayText(es)) =>
             /\ Len(arrayItems[r]) = Len(es)
             /\ arrayItems[r][Len(es)] = es[Len(es)]
      /\ fileContent[r] = <<"[", "1", ",", "]">> => arrayItems[r] = <<<<"1">>>>
      /\ fileContent[r] = <<"[", " ", "1", " ", ",", " ", "2", " ", "]">>
           => arrayItems[r] = <<<<"1">>, <<"2">>>>

\* A run on a blank interior has ended, and a run has scanned a text whose
\* last element has no comma after it.
C13_Witness ==
  \E r, q \in RunIds :
    /\ pc[r] = "done" /\ fileContent[r] = <<"[", " ", " ", " ", "]">>
    /\ Scanned(q) /\ fileContent[q] = ArrayText(<<<<"x">>, <<"1">>>>)
    /\ arrayItems[q] = <<<<"x">>, <<"1">>>>

\* ------------------------------------------------------------------------
\* C14: on the whole-document path a text that does not decode ends the run
\* with a 'complete' message whose error is set and whose value is null; at
\* no point of that run is a progress message with the fraction 100 or a
\* partial message posted.
\* ------------------------------------------------------------------------
C14_DocumentFailureIsFatal ==
  \A r \in RunIds :
    (pc[r] # "idle" /\ ~ArrayPath(r) /\ ~JSONParse(fileContent[r]).ok) =>
      /\ \A k \in Positions(r, "progress") : ~IsHundred(posted[r][k].progress)
      /\ Positions(r, "partial") = {}
      /\ pc[r] = "done" =>
           /\ LastMessage(r).error # NoError
           /\ LastMessage(r).data = NullValue

\* A run on a document that does not decode has ended after a suspension.
C14_Witness ==
  \E r \in RunIds :
    /\ pc[r] = "done" /\ ~ArrayPath(r) /\ ~JSONParse(fileContent[r]).ok
    /\ Cardinality(Positions(r, "progress")) >= 2

\* ------------------------------------------------------------------------
\* C20: the messages of a run, and with them its final value, are those of
\* the same request handled alone, whatever the other run does between the
\* suspensions: at every point they are a prefix of the messages of the run
\* alone, and all of them once the run has ended.
\* ------------------------------------------------------------------------

\* The reports of the whole-document loop from index i on, run alone.
RECURSIVE AloneChunks(_, _)
AloneChunks(i, total) ==
  IF i >= total THEN <<>>
  ELSE <<ChunkReport(i, total)>> \o AloneChunks(i + chunkSize, total)

\* The messages of the batch loop from index i on, run alone.
RECURSIVE AloneBatches(_, _, _, _, _, _)
AloneBatches(flag, spans, acc, i, done, total) ==
  LET n == Len(spans)
      batch == BatchAt(spans, i)
      grown == acc \o DecodeBatch(batch)
  IN IF i >= n
       THEN <<ProgressMessage(Hundred, total, total), CompleteMessage(<<"arr", acc>>, NoError)>>
       ELSE <<BatchReport(i, Len(batch), n, done, total)>>
              \o PartialAfter(flag, grown, n)
              \o AloneBatches(flag, spans, grown, i + BatchSize(n), done, total)

\* All the messages of a request handled alone.
AloneMessages(content, flag) ==
  LET total == Len(content)
      trimmed == Trim(content)
      inner == InnerContent(trimmed)
      res == JSONParse(content)
  IN IF StartsWith(trimmed, "[")
       THEN IF ~Framed(trimmed) THEN <<CompleteMessage(NullValue, ArrayError)>>
            ELSE IF inner = <<>> THEN <<CompleteMessage(<<"arr", <<>>>>, NoError)>>
            ELSE ScanReports(0, Len(inner), total)
                   \o AloneBatches(flag, ScanItems(inner), <<>>, 0, Len(inner) - 1, total)
       ELSE AloneChunks(0, total)
              \o IF res.ok
                   THEN <<ProgressMessage(Hundred, total, total), CompleteMessage(res.val, NoError)>>
                   ELSE <<CompleteMessage(NullValue, DocumentError)>>

C20_RunsDoNotInterfere ==
  \A r \in RunIds :
    pc[r] # "idle" =>
      LET alone == AloneMessages(fileContent[r], isArray[r]) IN
      /\ IsPrefix(posted[r], alone)
      /\ pc[r] = "done" => posted[r] = alone

\* Two array runs with different results so far are both suspended in
\* their batch loops, each after it has been resumed at least once.
C20_Witness ==
  /\ pc[1] = "batchWait" /\ pc[2] = "batchWait"
  /\ idx[1] >= 1 /\ idx[2] >= 1
  /\ items[1] # <<>> /\ items[2] # <<>> /\ items[1] # items[2]

\* ------------------------------------------------------------------------
\* Claims about schema inference
\* ------------------------------------------------------------------------

Inferred == inferOutput # NotInferred

\* What may replace the elements after the first one.
OtherElements == {<<>>} \cup {<<other>> : other \in Followers}

\* C15: the schema of an array takes its items from element 0 alone: items
\* is the inferred schema of the first element and stays the same whatever
\* the other elements are; for [{"a":1},{"a":"s","b":true}] items has the
\* one field a, of type integer; for an empty array items is {type: unknown}.
C15_ItemsFromFirstElementOnly ==
  (Inferred /\ IsArray(inferInput)) =>
    LET elements == inferInput[2] IN
    /\ "items" \in DOMAIN inferOutput
    /\ elements = <<>> => inferOutput.items = UnknownSchema
    /\ elements # <<>> =>
         /\ inferOutput.items = InferJsonSchema(elements[1])
         /\ \A others \in OtherElements :
              InferJsonSchema(<<"arr", <<elements[1]>> \o others>>).items = inferOutput.items
    /\ inferInput = MixedArray =>
         /\ inferOutput.items.type = "object"
         /\ DOMAIN inferOutput.items.properties = {<<"a">>}
         /\ inferOutput.items.properties[<<"a">>].type = "integer"

C15_Witness ==
  /\ Inferred
  /\ inferInput = MixedArray
  /\ inferOutput.type = "array"

\* The type the runtime type of a value stands for.
KindOf(value) ==
  CASE value[1] = "null" -> "null"
    [] value[1] = "arr" -> "array"
    [] value[1] = "obj" -> "object"
    [] value[1] = "str" -> "string"
    [] value[1] = "bool" -> "boolean"
    [] value[1] = "num" /\ Len(value) = 2 -> "integer"
    [] value[1] = "num" /\ Len(value) = 3 -> "number"

\* C16: the inferred type follows from the runtime type of the value alone
\* (null, array, object, string, boolean, integer for a number without
\* fractional part, number otherwise), and the schema of an object has one
\* property per own field of the value, the inferred schema of its value.
C16_KindAndOwnFields ==
  Inferred =>
    /\ inferOutput.type = KindOf(inferInput)
    /\ inferInput[1] = "obj" =>
         /\ "properties" \in DOMAIN inferOutput
         /\ DOMAIN inferOutput.properties = DOMAIN inferInput[2]
         /\ \A key \in DOMAIN inferOutput.properties :
              inferOutput.properties[key] = InferJsonSchema(inferInput[2][key])

\* The example of every node of schema, inferred from value, is right.
RECURSIVE ExamplesRight(_, _)
ExamplesRight(schema, value) ==
  /\ "example" \in DOMAIN schema <=>
       schema.type \in {"string", "number", "integer", "boolean"}
  /\ "example" \in DOMAIN schema => schema.example = value
  /\ "items" \in DOMAIN schema =>
       IF value[2] = <<>>
         THEN "example" \notin DOMAIN schema.items
         ELSE ExamplesRight(schema.items, value[2][1])
  /\ "properties" \in DOMAIN schema =>
       \A key \in DOMAIN schema.properties :
         ExamplesRight(schema.properties[key], value[2][key])

\* C17: a node of an inferred schema has an example exactly when its type
\* is string, number, integer or boolean, and the example is the value the
\* node was inferred from; null, array, object and unknown nodes have none.
C17_ExampleIffPrimitive == Inferred => ExamplesRight(inferOutput, inferInput)

C17_Witness ==
  /\ Inferred
  /\ inferInput = <<"obj", (<<"a">> :> <<"num", 15, 1>> @@ <<"b">> :> NullValue)>>
  /\ "example" \in DOMAIN inferOutput.properties[<<"a">>]
  /\ "example" \notin DOMAIN inferOutput.properties[<<"b">>]

\* ------------------------------------------------------------------------
\* Claims about the host
\* ------------------------------------------------------------------------

\* The host handles a complete message that carries an error.
HandlesErrorCompletion ==
  /\ outbox # <<>>
  /\ Head(outbox).type = "complete"
  /\ Head(outbox).error # NoError
  /\ outbox' = Tail(outbox)

\* C19: when the host has handled a complete message with an error, it
\* shows that error and holds no processed file for display, whatever files
\* were dropped before, also while an earlier run was in progress.
C19_ErrorLeavesNothingOnDisplay ==
  [][HandlesErrorCompletion => (error' = Some(Head(outbox).error) /\ processedFile' = Null)]_vars

\* ------------------------------------------------------------------------
\* Claims about the scan loop
\* ------------------------------------------------------------------------

\* The character of the iteration being done.
ScannedChar == scanText[scanAt + 1]

\* The iteration closes the current element.
ClosesElement == Len(scanState'.arrayItems) # Len(scanState.arrayItems)

\* The iteration keeps the character and touches nothing but the escape flag.
ConsumedLiterally ==
  /\ scanState'.currentItem = Append(scanState.currentItem, ScannedChar)
  /\ scanState'.inString = scanState.inString
  /\ scanState'.braceCount = scanState.braceCount
  /\ scanState'.bracketCount = scanState.bracketCount
  /\ scanState'.arrayItems = scanState.arrayItems
  /\ ~scanState'.escapeNext

\* C21: an iteration of the scan loop closes the current element only on a
\* comma met with both depths at zero and outside a string; and the
\* character after a pending backslash, which is pending only inside a
\* string, is kept as it is: string flag and depths stay, the flag is cleared.
C21_CommaClosesOnlyAtTopLevel ==
  [][scanAt' = scanAt + 1 =>
       /\ ClosesElement =>
            /\ ScannedChar = ","
            /\ scanState.braceCount = 0
            /\ scanState.bracketCount = 0
            /\ ~scanState.inString
       /\ scanState.escapeNext => (scanState.inString /\ ConsumedLiterally)]_vars

\* An escaped quote was kept inside a string after an element was closed.
C21_Witness ==
  /\ scanAt >= 2
  /\ scanText[scanAt - 1] = "\\"
  /\ scanText[scanAt] = "\""
  /\ scanState.inString
  /\ scanState.arrayItems # <<>>

\* ------------------------------------------------------------------------
\* Claims about the batches of the array path
\* ------------------------------------------------------------------------

\* Twice the batch size of request r.
PartialEvery(r) == 2 * BatchSize(Len(arrayItems'[r]))

\* The step is a batch of request r that takes the count of accumulated
\* items to or past a multiple of twice the batch size.
CrossesMultiple(r) ==
  /\ pc'[r] = "batchWait"
  /\ Len(posted'[r]) > Len(posted[r])
  /\ Len(items'[r]) \div PartialEvery(r) > Len(items[r]) \div PartialEvery(r)

\* C22: a batch of a flagged array that takes the count of accumulated
\* items to or past a multiple of twice the batch size is followed, in the
\* same step, by a partial message with all the items decoded so far, also
\* when the count passes the multiple without being equal to it.
C22_PartialAtEveryCrossing ==
  [][\A r \in RunIds :
       (isArray'[r] /\ CrossesMultiple(r)) =>
         posted'[r][Len(posted'[r])] = PartialMessage(items'[r], Len(items'[r]))]_vars

\* ------------------------------------------------------------------------
\* Claims about the progress messages
\* ------------------------------------------------------------------------

Zero == Fraction(0, 1)

Seventy == Fraction(70, 1)

Eighty == Fraction(80, 1)

\* The number of iterations of the scan loop of request r that report.
ScanReportCount(r) ==
  (Len(InnerContent(Trim(fileContent[r]))) + ScanReportEvery - 1) \div ScanReportEvery

\* The k-th message of request r is the report after the decode of the whole
\* document.
AfterDecode(r, k) == Succeeded(r) /\ k = Len(posted[r]) - 1

\* C23: every progress message has a fraction from 0 to 100 and processed
\* at most total; on the array path the reports of the scan loop are below
\* 70 and the later ones from 70 to 100; on the whole-document path the
\* reports before the decode are at most 80.
C23_ProgressWithinPhaseBounds ==
  \A r \in RunIds : \A k \in Positions(r, "progress") :
    LET event == posted[r][k] IN
    /\ FractionLeq(Zero, event.progress)
    /\ FractionLeq(event.progress, Hundred)
    /\ event.processed <= event.total
    /\ ArrayPath(r) =>
         IF k <= ScanReportCount(r)
           THEN ~FractionLeq(Seventy, event.progress)
           ELSE FractionLeq(Seventy, event.progress)
    /\ (~ArrayPath(r) /\ ~AfterDecode(r, k)) => FractionLeq(event.progress, Eighty)

\* An array run with reports of both phases and a whole-document run with
\* reports before and after its decode have ended.
C23_Witness ==
  /\ Succeeded(1) /\ ArrayPath(1)
  /\ ScanReportCount(1) >= 2
  /\ Cardinality(Positions(1, "progress")) > ScanReportCount(1) + 1
  /\ Succeeded(2) /\ ~ArrayPath(2)
  /\ Cardinality(Positions(2, "progress")) >= 3

\* The reports of the scan loop among the messages request r posts in the
\* step, by their positions.
ScanReportsOfStep(r) ==
  LET trimmed == Trim(fileContent'[r])
      reports == IF Framed(trimmed)
                   THEN (Len(InnerContent(trimmed)) + ScanReportEvery - 1) \div ScanReportEvery
                   ELSE 0
  IN {k \in (Len(posted[r]) + 1)..Len(posted'[r]) : k <= reports}

\* C24: the scan loop gives up control at every report, so that another
\* task can run between two reports of the scan loop of one run: no step
\* of the worker, which runs without giving up control, posts two of them.
C24_ScanYieldsBetweenReports ==
  [][\A r \in RunIds : Cardinality(ScanReportsOfStep(r)) <= 1]_vars

\* ------------------------------------------------------------------------
\* Claims about the suspensions of the array path
\* ------------------------------------------------------------------------

\* Equality of fractions.
FractionEq(a, b) == a.num * b.den = b.num * a.den

\* The reports of request r after those of its scan loop.
BatchPhaseReports(r) == {k \in Positions(r, "progress") : k > ScanReportCount(r)}

\* The number of batches of n items.
BatchCount(n) == (n + BatchSize(n) - 1) \div BatchSize(n)

\* The k-th message of request r is the report of the batch that ends at
\* item upto of n.
IsReportOfBatch(r, k, upto, n) ==
  /\ k >= 1
  /\ posted[r][k].type = "progress"
  /\ FractionEq(posted[r][k].progress, Fraction(70 * n + 30 * upto, n))

\* Request r is suspended after the batch at index idx[r]: the batches up
\* to it are decoded whole, each has its report, and the last messages
\* are the report of this batch and, if there is one, its partial result.
SuspendedAfterWholeBatch(r) ==
  LET n == Len(arrayItems[r])
      upto == Min(idx[r] + BatchSize(n), n)
      last == Len(posted[r])
  IN /\ idx[r] % BatchSize(n) = 0
     /\ items[r] = Survivors(SubSeq(arrayItems[r], 1, upto))
     /\ Cardinality(BatchPhaseReports(r)) = idx[r] \div BatchSize(n) + 1
     /\ \/ IsReportOfBatch(r, last, upto, n)
        \/ /\ posted[r][last] = PartialMessage(items[r], Len(items[r]))
           /\ IsReportOfBatch(r, last - 1, upto, n)

SuspendedOncePerBatch ==
  \A r \in RunIds :
    /\ pc[r] = "batchWait" => SuspendedAfterWholeBatch(r)
    /\ (Succeeded(r) /\ Scanned(r) /\ arrayItems[r] # <<>>) =>
         Cardinality(BatchPhaseReports(r)) = BatchCount(Len(arrayItems[r])) + 1

\* A step of a suspended request that suspends it again is one batch.
ResumesForOneBatch ==
  \A r \in RunIds :
    (pc[r] = "batchWait" /\ pc'[r] = "batchWait" /\ posted'[r] # posted[r]) =>
      idx'[r] = idx[r] + BatchSize(Len(arrayItems[r]))

\* C25: in the batch loop the worker suspends once after each batch, as
\* many times as there are batches; when it is suspended the items of the
\* batches so far are all decoded and appended, and the report of the last
\* batch and its partial result, if any, are posted: no suspension falls
\* inside a batch or between its append, its report and its partial result.
C25_SuspendsOncePerBatch == []SuspendedOncePerBatch /\ [][ResumesForOneBatch]_vars

\* A request of batches of two items is suspended after its fourth batch,
\* items of which failed, its partial result posted.
C25_Witness ==
  /\ pc[1] = "batchWait"
  /\ BatchSize(Len(arrayItems[1])) = 2
  /\ idx[1] = 6
  /\ Len(items[1]) < 8
  /\ LastMessage(1).type = "partial"

\* ------------------------------------------------------------------------
\* Claims about the values of the array path
\* ------------------------------------------------------------------------

\* C26: for a text that is a well-formed JSON array, the run ends without
\* error and its value is the value JSON.parse gives for the whole text:
\* as many items, in the same order, each equal, none dropped.
C26_ArrayPathEqualsOneShotDecode ==
  \A r \in RunIds :
    LET whole == JSONParse(fileContent[r]) IN
    (pc[r] = "done" /\ ArrayPath(r) /\ whole.ok) =>
      /\ LastMessage(r).error = NoError
      /\ LastMessage(r).data = whole.val

\* Well-formed arrays with commas, braces and brackets inside a string and
\* with nested elements have been decoded to the end.
C26_Witness ==
  /\ pc[1] = "done" /\ fileContent[1] = QuotedText
  /\ pc[2] = "done" /\ ArrayPath(2) /\ JSONParse(fileContent[2]).ok
  /\ Len(LastMessage(2).data[2]) = 2
  /\ LastMessage(2).data[2][1][1] = "arr"

\* C27: every partial message carries at least one item: its count is at
\* least 1 and its snapshot is not empty, also when the items of the first
\* batches all fail to decode.
C27_PartialsAreNeverEmpty ==
  \A r \in RunIds : \A k \in Positions(r, "partial") :
    /\ posted[r][k].count >= 1
    /\ posted[r][k].data # <<>>

\* The host handles a complete message.
HandlesCompletion ==
  /\ outbox # <<>>
  /\ Head(outbox).type = "complete"
  /\ outbox' = Tail(outbox)

\* C28: when the host has handled a complete message, either an error is
\* shown or a processed file is held, not both and not neither; and a
\* complete message without error leaves the processed file of its value,
\* with the schema inferred from it, whatever the value: null, false, 0 and
\* the empty string too.
C28_CompletionShowsErrorOrFile ==
  [][HandlesCompletion =>
       /\ (error' # Null) # (processedFile' # Null)
       /\ Head(outbox).error = NoError =>
            /\ processedFile' # Null
            /\ processedFile'[1].data = Head(outbox).data
            /\ processedFile'[1].schema = InferJsonSchema(Head(outbox).data)]_vars

\* The parse requests posted to the worker whose run has not ended.
Uncompleted == Len(inbox) + Cardinality({r \in RunIds : pc[r] \in {"chunkWait", "batchWait"}})

\* The file on display carries the name and the size of a file whose text
\* decodes to its value.
RecordedUnderOwnFile ==
  processedFile # Null =>
    \E file \in Files :
      /\ file.name = processedFile[1].name
      /\ Size(file) = processedFile[1].size
      /\ JSONParse(file.text).ok
      /\ JSONParse(file.text).val = processedFile[1].data

\* C29: whatever files are dropped, also during an earlier run, at most one
\* parse request is posted and not yet completed, and a completion is
\* recorded under the name and size of the file whose text produced it.
C29_OneRequestUnderItsOwnFile ==
  /\ Uncompleted <= 1
  /\ RecordedUnderOwnFile

\* Without a file on display, as after clearFile, there are no insights.
NoInsightsWithoutFile == processedFile = Null => insights = Null

\* While a request is without response, the loading flag is set.
LoadingWhilePending == analyses # <<>> => analyzeLoading

\* When all the analyses have been answered without failure, the insights
\* are those of the file on display, the one requested last.
InsightsOfLastRequest ==
  (processedFile # Null /\ insights # Null /\ analyzeError = Null
     /\ analyses = <<>> /\ timers = <<>>) =>
    insights[1].of = processedFile[1].name

\* C30: after clearFile there are no insights until the analysis of a file
\* loaded later is answered: an analysis requested or scheduled before the
\* clear never fills them again; and of two analyses that overlap, the one
\* requested last decides the insights and the loading flag.
C30_InsightsFollowClearAndLastRequest ==
  /\ NoInsightsWithoutFile
  /\ LoadingWhilePending
  /\ InsightsOfLastRequest

====
